---- MODULE Spec2Model ----
(***************************************************************************)
(* Model of the TSO dashboard view (DashboardView.tsx) and of the generic  *)
(* sortable table (Table.tsx).                                             *)
(*                                                                         *)
(* Time.  A JavaScript Date is a UTC time value in milliseconds.  It is    *)
(* kept here as a record [day, ms]: whole days since 1970-01-01 and the    *)
(* millisecond of that UTC day, so that no number leaves TLC's integers.   *)
(* The host time zone is a fixed offset of tz minutes (no DST change).     *)
(* ISO date strings "YYYY-MM-DD" are records [year, month, day].           *)
(***************************************************************************)
EXTENDS Integers, Sequences, FiniteSets, TLC

VARIABLES
    tz,                \* host UTC offset in minutes (local = UTC + tz)
    hostParsesLabel,   \* does the host's Date.parse recognise a month label
    clock,             \* wall clock read by `new Date()` at the last render
    students, staff, batches, leads, feePayments, expenses,   \* props.data
    startDate, endDate,                                       \* useState
    filteredData, chartData, overduePayments, upcomingPayments, \* last render
    headers, sortConfig,          \* Table props / the owner's sort state
    clicks, requestSortCalls      \* log of header clicks and of requestSort calls

dashVars == <<tz, hostParsesLabel, clock, students, staff, batches, leads,
              feePayments, expenses, startDate, endDate, filteredData,
              chartData, overduePayments, upcomingPayments>>
tableVars == <<headers, sortConfig, clicks, requestSortCalls>>
vars == <<dashVars, tableVars>>

(***************************************************************************)
(* Bounds of the model.                                                    *)
(***************************************************************************)
MaxPayments == 2   \* fee payments of a data set
MaxRecords == 2    \* records of all entity types of a data set
MaxClicks == 4     \* header clicks of a run

(***************************************************************************)
(* JavaScript Date arithmetic.                                             *)
(***************************************************************************)
MsPerMinute == 60 * 1000
MsPerDay == 24 * 60 * MsPerMinute

Instant(d, m) == [day |-> d + (m \div MsPerDay), ms |-> m % MsPerDay]

TimeLt(a, b) == a.day < b.day \/ (a.day = b.day /\ a.ms < b.ms)
TimeLe(a, b) == a.day < b.day \/ (a.day = b.day /\ a.ms <= b.ms)
\* sign of a.getTime() - b.getTime()
TimeCmp(a, b) == IF TimeLt(a, b) THEN -1 ELSE IF TimeLt(b, a) THEN 1 ELSE 0

\* MakeDay: day number of the proleptic Gregorian date y-m-d (m in 1..12)
DaysFromCivil(y, m, d) ==
    LET yy  == IF m <= 2 THEN y - 1 ELSE y
        era == yy \div 400
        yoe == yy - era * 400
        mp  == IF m > 2 THEN m - 3 ELSE m + 9
        doy == ((153 * mp + 2) \div 5) + d - 1
        doe == yoe * 365 + (yoe \div 4) - (yoe \div 100) + doy
    IN  era * 146097 + doe - 719468

\* YearFromTime / MonthFromTime / DateFromTime of a day number
CivilFromDays(z) ==
    LET zz  == z + 719468
        era == zz \div 146097
        doe == zz - era * 146097
        yoe == (doe - (doe \div 1460) + (doe \div 36524) - (doe \div 146096)) \div 365
        doy == doe - (365 * yoe + (yoe \div 4) - (yoe \div 100))
        mp  == (5 * doy + 2) \div 153
        d   == doy - ((153 * mp + 2) \div 5) + 1
        m   == IF mp < 10 THEN mp + 3 ELSE mp - 9
        y   == yoe + era * 400 + (IF m <= 2 THEN 1 ELSE 0)
    IN  [year |-> y, month |-> m, day |-> d]

ISO(y, m, d) == [year |-> y, month |-> m, day |-> d]

\* new Date("YYYY-MM-DD"): a date-only string is midnight UTC
DateParse(s) == Instant(DaysFromCivil(s.year, s.month, s.day), 0)

\* date.toISOString().split('T')[0]: the UTC calendar date
toISODateString(t) == CivilFromDays(t.day)

\* LocalTime(t): the instant shifted so that its fields read local time
LocalTime(t, z) == Instant(t.day, t.ms + z * MsPerMinute)
\* UTC(t): a local time value back to a UTC instant
FromLocal(localDay, localMs, z) == Instant(localDay, localMs - z * MsPerMinute)

getFullYear(t, z) == CivilFromDays(LocalTime(t, z).day).year
getMonth(t, z) == CivilFromDays(LocalTime(t, z).day).month - 1    \* 0-based
getDate(t, z) == CivilFromDays(LocalTime(t, z).day).day
getUTCFullYear(t) == CivilFromDays(t.day).year
getUTCMonth(t) == CivilFromDays(t.day).month - 1                  \* 0-based

\* new Date(year, monthIndex, day): local midnight, day may overflow
NewLocalDate(y, monthIndex, d, z) ==
    FromLocal(DaysFromCivil(y, monthIndex + 1, 1) + d - 1, 0, z)

\* date.setHours(0, 0, 0, 0): local midnight of the local day
setHoursZero(t, z) == FromLocal(LocalTime(t, z).day, 0, z)

\* date.setDate(n): day n of the local month, local time of day kept
setDate(t, n, z) ==
    LET l == LocalTime(t, z)
        c == CivilFromDays(l.day)
    IN  FromLocal(DaysFromCivil(c.year, c.month, 1) + n - 1, l.ms, z)

\* date.setUTCHours(h, mi, s, ms)
setUTCHours(t, h, mi, s, ms) ==
    [day |-> t.day, ms |-> ((h * 60 + mi) * 60 + s) * 1000 + ms]

(***************************************************************************)
(* Array helpers.                                                          *)
(***************************************************************************)
\* Array.prototype.reduce((sum, x) => sum + x.amount, 0)
RECURSIVE SumAmount(_)
SumAmount(s) == IF s = <<>> THEN 0 ELSE Head(s).amount + SumAmount(Tail(s))

\* An invalid Date (time value NaN)
NaN == [nan |-> TRUE]

\* a - b of two Dates as the sort comparator sees it: NaN counts as +0
KeyCmp(a, b) == IF a = NaN \/ b = NaN THEN 0 ELSE TimeCmp(a, b)

\* Array.prototype.sort with comparator key(a) - key(b), on a sequence of
\* [key, item] pairs: stable, an item moves before those that compare greater
RECURSIVE InsertStable(_, _)
InsertStable(sorted, x) ==
    IF sorted = <<>> THEN <<x>>
    ELSE IF KeyCmp(sorted[Len(sorted)].key, x.key) > 0
         THEN InsertStable(SubSeq(sorted, 1, Len(sorted) - 1), x)
                  \o <<sorted[Len(sorted)]>>
         ELSE sorted \o <<x>>

RECURSIVE SortStable(_)
SortStable(s) ==
    IF s = <<>> THEN <<>>
    ELSE InsertStable(SortStable(SubSeq(s, 1, Len(s) - 1)), s[Len(s)])

Range(s) == {s[i] : i \in DOMAIN s}

\* .sort((a, b) => new Date(a.date).getTime() - new Date(b.date).getTime())
SortByDate(s) ==
    LET keyed == [i \in DOMAIN s |-> [key |-> DateParse(s[i].date), item |-> s[i]]]
        out   == SortStable(keyed)
    IN  [i \in DOMAIN out |-> out[i].item]

(***************************************************************************)
(* DashboardView: the period filter (filteredData).                        *)
(***************************************************************************)
\* a record field that is absent (s.admissionDate undefined)
Absent == [absent |-> TRUE]

\* start of the period: new Date(startDate); start.setUTCHours(0, 0, 0, 0)
PeriodStart(sd) == setUTCHours(DateParse(sd), 0, 0, 0, 0)
\* end of the period: new Date(endDate); end.setUTCHours(23, 59, 59, 999)
PeriodEnd(ed) == setUTCHours(DateParse(ed), 23, 59, 59, 999)

\* faulty variant: the boundary days of the period left out
inPeriod_exclusive(date, sd, ed) ==
    /\ TimeLt(PeriodStart(sd), DateParse(date))
    /\ TimeLt(DateParse(date), PeriodEnd(ed))

\* date >= start && date <= end
inPeriod(date, sd, ed) ==
    /\ TimeLe(PeriodStart(sd), DateParse(date))
    /\ TimeLe(DateParse(date), PeriodEnd(ed))

\* s.admissionDate || new Date().toISOString().split("T")[0]
admissionDateOf(s, now) ==
    IF s.admissionDate = Absent THEN toISODateString(now) ELSE s.admissionDate

newAdmissions(sd, ed, now) ==
    SelectSeq(students, LAMBDA s : inPeriod(admissionDateOf(s, now), sd, ed))
newHires(sd, ed) == SelectSeq(staff, LAMBDA s : inPeriod(s.joiningDate, sd, ed))
activeCourseIds(sd, ed, now) ==
    UNION {s.courseIds : s \in Range(newAdmissions(sd, ed, now))}
newBatches(sd, ed) == SelectSeq(batches, LAMBDA b : inPeriod(b.startDate, sd, ed))
newLeads(sd, ed) == SelectSeq(leads, LAMBDA l : inPeriod(l.enquiryDate, sd, ed))

\* faulty variant: the status of the payment not looked at
isPaidInPeriod_anyStatus(f, sd, ed) == inPeriod(f.date, sd, ed)
isPaidInPeriod(f, sd, ed) == f.status = "Paid" /\ inPeriod(f.date, sd, ed)
paidPayments(sd, ed) == SelectSeq(feePayments, LAMBDA f : isPaidInPeriod(f, sd, ed))
allExpenses(sd, ed) == SelectSeq(expenses, LAMBDA e : inPeriod(e.date, sd, ed))

ComputeFilteredData(sd, ed, now) ==
    [ newAdmissionsCount |-> Len(newAdmissions(sd, ed, now)),
      newHiresCount      |-> Len(newHires(sd, ed)),
      activeCoursesCount |-> Cardinality(activeCourseIds(sd, ed, now)),
      newBatchesCount    |-> Len(newBatches(sd, ed)),
      newLeadsCount      |-> Len(newLeads(sd, ed)),
      revenue            |-> SumAmount(paidPayments(sd, ed)),
      expenses           |-> SumAmount(allExpenses(sd, ed)),
      paidPayments       |-> paidPayments(sd, ed),
      allExpenses        |-> allExpenses(sd, ed) ]

(***************************************************************************)
(* DashboardView: the monthly series (processMonthlyData).                 *)
(***************************************************************************)
MonthShort == <<"Jan", "Feb", "Mar", "Apr", "May", "Jun",
                "Jul", "Aug", "Sep", "Oct", "Nov", "Dec">>

\* date.toLocaleString('default', {month: 'short', year: 'numeric'}): the
\* label "Mar 2024" of the local month of the instant
toMonthLabel(t, z) ==
    [mon |-> MonthShort[getMonth(t, z) + 1], year |-> getFullYear(t, z)]

\* the month key of an item: label of
\* new Date(itemDate.getUTCFullYear(), itemDate.getUTCMonth())
monthKey(item, z) ==
    LET itemDate == DateParse(item.date)
    IN  toMonthLabel(NewLocalDate(getUTCFullYear(itemDate), getUTCMonth(itemDate), 1, z), z)

\* new Date(label): Date.parse of a string that is not in the ISO format is
\* implementation-defined; a host that recognises "Mar 2024" reads it as the
\* local start of that month, any other host returns an invalid Date
parseMonthLabel(label, z, parses) ==
    IF parses
    THEN NewLocalDate(label.year,
                      (CHOOSE i \in DOMAIN MonthShort : MonthShort[i] = label.mon) - 1,
                      1, z)
    ELSE NaN

\* faulty variant: the amount assigned to the bucket, not added to it
addToBucket_assign(buckets, month, type, amount) ==
    IF \E i \in DOMAIN buckets : buckets[i].name = month
    THEN [i \in DOMAIN buckets |->
             IF buckets[i].name = month
             THEN [buckets[i] EXCEPT ![type] = amount]
             ELSE buckets[i]]
    ELSE Append(buckets, [[name |-> month, Revenue |-> 0, Expenses |-> 0]
                              EXCEPT ![type] = amount])

\* monthlyData[month][type] += item.amount, the bucket created on first use;
\* the buckets are kept in insertion order (Object.keys order)
addToBucket(buckets, month, type, amount) ==
    IF \E i \in DOMAIN buckets : buckets[i].name = month
    THEN [i \in DOMAIN buckets |->
             IF buckets[i].name = month
             THEN [buckets[i] EXCEPT ![type] = @ + amount]
             ELSE buckets[i]]
    ELSE Append(buckets, [[name |-> month, Revenue |-> 0, Expenses |-> 0]
                              EXCEPT ![type] = amount])

RECURSIVE processItems(_, _, _, _)
processItems(buckets, items, type, z) ==
    IF items = <<>> THEN buckets
    ELSE processItems(addToBucket(buckets, monthKey(Head(items), z), type,
                                  Head(items).amount),
                      Tail(items), type, z)

\* .sort((a, b) => new Date(a.name) - new Date(b.name))
sortChart(buckets, z, parses) ==
    LET keyed == [i \in DOMAIN buckets |->
                     [key |-> parseMonthLabel(buckets[i].name, z, parses),
                      item |-> buckets[i]]]
        out   == SortStable(keyed)
    IN  [i \in DOMAIN out |-> out[i].item]

processMonthlyData(payments, expensesList, z, parses) ==
    sortChart(processItems(processItems(<<>>, payments, "Revenue", z),
                           expensesList, "Expenses", z),
              z, parses)

(***************************************************************************)
(* DashboardView: overdue and upcoming payments.                           *)
(***************************************************************************)
\* todayDate = new Date(); todayDate.setHours(0, 0, 0, 0)
todayDate(now, z) == setHoursZero(now, z)

\* thirtyDaysFromNow = new Date(); .setDate(todayDate.getDate() + 30)
thirtyDaysFromNow(now, z) == setDate(now, getDate(todayDate(now, z), z) + 30, z)

\* faulty variant: the classification fed with the payments of the period only
riskInput_ofPeriod(sd, ed) == SelectSeq(feePayments, LAMBDA f : inPeriod(f.date, sd, ed))

\* the collection the classification reads: props.data.feePayments, whatever
\* period (sd, ed) is selected
riskInput(sd, ed) == feePayments

pendingPayments(pays) == SelectSeq(pays, LAMBDA p : p.status = "Pending")

isOverdue(p, now, z) == TimeLt(DateParse(p.date), todayDate(now, z))

\* faulty variant: the lower end of the upcoming window left out
isUpcoming_noLowerEnd(p, now, z) ==
    TimeLe(DateParse(p.date), thirtyDaysFromNow(now, z))

isUpcoming(p, now, z) ==
    /\ TimeLe(todayDate(now, z), DateParse(p.date))
    /\ TimeLe(DateParse(p.date), thirtyDaysFromNow(now, z))

ComputeOverdue(pays, now, z) ==
    SortByDate(SelectSeq(pendingPayments(pays), LAMBDA p : isOverdue(p, now, z)))
ComputeUpcoming(pays, now, z) ==
    SortByDate(SelectSeq(pendingPayments(pays), LAMBDA p : isUpcoming(p, now, z)))

(***************************************************************************)
(* DashboardView: one render of the component at wall-clock time now.      *)
(***************************************************************************)
Render(sd, ed, now) ==
    /\ clock' = now
    /\ startDate' = sd
    /\ endDate' = ed
    /\ filteredData' = ComputeFilteredData(sd, ed, now)
    /\ chartData' = processMonthlyData(paidPayments(sd, ed), allExpenses(sd, ed),
                                       tz, hostParsesLabel)
    /\ overduePayments' = ComputeOverdue(riskInput(sd, ed), now, tz)
    /\ upcomingPayments' = ComputeUpcoming(riskInput(sd, ed), now, tz)
    /\ UNCHANGED <<tz, hostParsesLabel, students, staff, batches, leads,
                   feePayments, expenses>>
    /\ UNCHANGED tableVars

\* useState(toISODateString(startOfYear)), useState(toISODateString(today))
initialStartDate(now, z) == toISODateString(NewLocalDate(getFullYear(now, z), 0, 1, z))
initialEndDate(now) == toISODateString(now)

\* handleThisMonth: setDateRange(new Date(y, m, 1), now)
thisMonthStart(now, z) ==
    toISODateString(NewLocalDate(getFullYear(now, z), getMonth(now, z), 1, z))
\* handleLast30Days: thirtyDaysAgo.setDate(now.getDate() - 30)
last30DaysStart(now, z) == toISODateString(setDate(now, getDate(now, z) - 30, z))
\* handleThisYear: setDateRange(new Date(y, 0, 1), now)
thisYearStart(now, z) == toISODateString(NewLocalDate(getFullYear(now, z), 0, 1, z))

(***************************************************************************)
(* Inputs of the model.                                                    *)
(***************************************************************************)
\* the day the model's wall clock is about
BaseDay == DaysFromCivil(2024, 12, 15)

\* instants at which the user acts: late evening UTC of the day before, noon,
\* and early morning UTC of the day after
ClockSamples ==
    { Instant(BaseDay - 1, (20 * 60 + 30) * MsPerMinute),
      Instant(BaseDay, 12 * 60 * MsPerMinute),
      Instant(BaseDay + 1, 60 * MsPerMinute) }

\* UTC-05:00, UTC, UTC+05:30
Offsets == {-300, 0, 330}

\* dates the user types into the two date inputs
PickDates == {ISO(2024, 3, 20), ISO(2025, 1, 14)}

SeqsUpTo(S, n) == UNION {[1..k -> S] : k \in 0..n}
WithIds(s) == [i \in DOMAIN s |-> [id |-> i] @@ s[i]]
OfKind(s, k) == WithIds(SelectSeq(s, LAMBDA r : r.kind = k))

\* sample fee payments and expenses of the series checks: three months over
\* two years, Paid and Pending
PaymentPool ==
    { [kind |-> "payment", date |-> ISO(2024, 3, 20),  status |-> "Paid",    amount |-> 5000],
      [kind |-> "payment", date |-> ISO(2025, 1, 14),  status |-> "Paid",    amount |-> 800],
      [kind |-> "payment", date |-> ISO(2024, 12, 15), status |-> "Pending", amount |-> 450] }
ExpenseSamples ==
    { <<>>,
      <<[kind |-> "expense", date |-> ISO(2024, 3, 20), amount |-> 2000]>>,
      <<[kind |-> "expense", date |-> ISO(2024, 12, 15), amount |-> 300]>> }

\* sample fee payments of the risk checks: due yesterday, today, in 30 and in
\* 31 days, and one already paid
RiskPool ==
    { [kind |-> "payment", date |-> CivilFromDays(BaseDay + k), status |-> "Pending",
       amount |-> 100 + k] : k \in {-1, 0, 30, 31} }
    \cup { [kind |-> "payment", date |-> CivilFromDays(BaseDay), status |-> "Paid",
            amount |-> 900] }

\* sample records of every entity type, for the metrics checks
RecordPool ==
    { [kind |-> "student", admissionDate |-> ISO(2024, 3, 20), courseIds |-> {"c1", "c2"}],
      [kind |-> "student", admissionDate |-> Absent, courseIds |-> {"c2", "c3"}],
      [kind |-> "staff", joiningDate |-> ISO(2025, 1, 14)],
      [kind |-> "batch", startDate |-> ISO(2024, 3, 21)],
      [kind |-> "lead", enquiryDate |-> ISO(2025, 1, 13)],
      [kind |-> "payment", date |-> ISO(2025, 1, 14), status |-> "Paid", amount |-> 800],
      [kind |-> "expense", date |-> ISO(2024, 3, 20), amount |-> 2000] }

\* the state after the first render of a data set given as one sequence of
\* records of all kinds
DashInit(dataSets, parse) ==
    /\ tz \in Offsets
    /\ hostParsesLabel \in parse
    /\ clock \in ClockSamples
    /\ \E data \in dataSets :
        /\ students = OfKind(data, "student")
        /\ staff = OfKind(data, "staff")
        /\ batches = OfKind(data, "batch")
        /\ leads = OfKind(data, "lead")
        /\ feePayments = OfKind(data, "payment")
        /\ expenses = OfKind(data, "expense")
    /\ startDate = initialStartDate(clock, tz)
    /\ endDate = initialEndDate(clock)
    /\ filteredData = ComputeFilteredData(startDate, endDate, clock)
    /\ chartData = processMonthlyData(paidPayments(startDate, endDate),
                                      allExpenses(startDate, endDate),
                                      tz, hostParsesLabel)
    /\ overduePayments = ComputeOverdue(riskInput(startDate, endDate), clock, tz)
    /\ upcomingPayments = ComputeUpcoming(riskInput(startDate, endDate), clock, tz)

\* no table is shown while the dashboard is checked
NoSort == [none |-> TRUE]
TableIdle ==
    /\ headers = <<>>
    /\ sortConfig = NoSort
    /\ clicks = <<>>
    /\ requestSortCalls = <<>>

(***************************************************************************)
(* DashboardView: the event handlers.  A handler runs at an instant now    *)
(* not before the last render; setting the state to new values renders     *)
(* the component again (React skips the render when nothing changes).      *)
(***************************************************************************)
SetPeriod(sd, ed, now) ==
    /\ <<sd, ed>> # <<startDate, endDate>>
    /\ Render(sd, ed, now)

\* <input type="date" onChange={e => setStartDate(e.target.value)}>
SetStartDate(d, now) == SetPeriod(d, endDate, now)
\* <input type="date" onChange={e => setEndDate(e.target.value)}>
SetEndDate(d, now) == SetPeriod(startDate, d, now)

handleThisMonth(now) == SetPeriod(thisMonthStart(now, tz), toISODateString(now), now)
handleLast30Days(now) == SetPeriod(last30DaysStart(now, tz), toISODateString(now), now)
handleThisYear(now) == SetPeriod(thisYearStart(now, tz), toISODateString(now), now)

Later == {t \in ClockSamples : TimeLe(clock, t)}

DashNext ==
    \/ \E d \in PickDates, now \in Later : SetStartDate(d, now)
    \/ \E d \in PickDates, now \in Later : SetEndDate(d, now)
    \/ \E now \in Later : handleThisMonth(now)
    \/ \E now \in Later : handleLast30Days(now)
    \/ \E now \in Later : handleThisYear(now)

(***************************************************************************)
(* Table: the header row and the owner's sort state.                       *)
(***************************************************************************)
\* sortConfig: null or {key, direction}
SortedBy(k, dir) == [key |-> k, direction |-> dir]

\* faulty variant: every header taken as sortable
isSortable_always(header) == TRUE

\* header.sortable as a condition: the optional flag is present and true
isSortable(header) == "sortable" \in DOMAIN header /\ header.sortable

\* the owner's requestSort(key): the same column toggles ascending and
\* descending, any other column (or no sort) starts ascending
requestSort(config, key) ==
    IF config # NoSort /\ config.key = key /\ config.direction = "ascending"
    THEN SortedBy(key, "descending")
    ELSE SortedBy(key, "ascending")

\* faulty variant: the key of the first column handed over
clickKey_first(hs, i) == hs[1].key

\* the key the click handler of a header hands to requestSort
clickKey(hs, i) == hs[i].key

\* onClick={() => header.sortable && requestSort(header.key)}
HeaderClick(i) ==
    /\ Len(clicks) < MaxClicks
    /\ clicks' = Append(clicks, i)
    /\ IF isSortable(headers[i])
       THEN /\ sortConfig' = requestSort(sortConfig, clickKey(headers, i))
            /\ requestSortCalls' = Append(requestSortCalls, clickKey(headers, i))
       ELSE UNCHANGED <<sortConfig, requestSortCalls>>
    /\ UNCHANGED headers
    /\ UNCHANGED dashVars

\* the header rows of the model: three columns, each marked sortable, marked
\* not sortable, or without the flag
HeaderKeys == <<"name", "date", "actions">>
HeaderVariants(k) ==
    { [key |-> k, label |-> k, sortable |-> TRUE],
      [key |-> k, label |-> k, sortable |-> FALSE],
      [key |-> k, label |-> k] }

InitTable ==
    /\ DashInit({<<>>}, {TRUE})
    /\ tz = 0
    /\ clock = Instant(BaseDay, 12 * 60 * MsPerMinute)
    /\ headers \in {h \in [DOMAIN HeaderKeys -> UNION {HeaderVariants(HeaderKeys[i]) : i \in DOMAIN HeaderKeys}] :
                       \A i \in DOMAIN HeaderKeys : h[i].key = HeaderKeys[i]}
    /\ sortConfig = NoSort
    /\ clicks = <<>>
    /\ requestSortCalls = <<>>

TableNext == \E i \in DOMAIN headers : HeaderClick(i)

SpecTable == InitTable /\ [][TableNext]_vars

(***************************************************************************)
(* Specifications.                                                         *)
(***************************************************************************)
\* payments and expenses over several months, on both kinds of host
Init ==
    /\ DashInit({p \o e : p \in SeqsUpTo(PaymentPool, MaxPayments), e \in ExpenseSamples},
                BOOLEAN)
    /\ TableIdle
Spec == Init /\ [][DashNext]_vars

\* pending payments around today and around the 30-day horizon
InitRisk ==
    /\ DashInit(SeqsUpTo(RiskPool, MaxPayments), {TRUE})
    /\ TableIdle
SpecRisk == InitRisk /\ [][DashNext]_vars

\* records of every entity type
InitMetrics ==
    /\ DashInit(SeqsUpTo(RecordPool, MaxRecords), {TRUE})
    /\ TableIdle
SpecMetrics == InitMetrics /\ [][DashNext]_vars

(***************************************************************************)
(* Calendar notions the properties are stated in: whole calendar dates,    *)
(* compared field by field, and the local calendar date of an instant.     *)
(***************************************************************************)
DateLe(a, b) ==
    \/ a.year < b.year
    \/ a.year = b.year /\ a.month < b.month
    \/ a.year = b.year /\ a.month = b.month /\ a.day <= b.day

\* the calendar date n days after date
AddDays(date, n) == CivilFromDays(DaysFromCivil(date.year, date.month, date.day) + n)

\* the calendar date the user's wall clock shows at instant t
LocalDate(t, z) == CivilFromDays(LocalTime(t, z).day)
LocalToday == LocalDate(clock, tz)

\* date lies on a day of the selected period, both boundary days included
DayInPeriod(date) == DateLe(startDate, date) /\ DateLe(date, endDate)

RECURSIVE TotalOf(_, _)
TotalOf(s, I) ==
    IF I = {} THEN 0
    ELSE LET i == CHOOSE j \in I : TRUE IN s[i].amount + TotalOf(s, I \ {i})

Pending == {i \in DOMAIN feePayments : feePayments[i].status = "Pending"}
Listed(list) == {list[i].id : i \in DOMAIN list}

(***************************************************************************)
(* Payment risk lists.                                                     *)
(***************************************************************************)
\* C1: a Pending payment dated today's (local) calendar date is in
\* upcomingPayments and not in overduePayments, at every instant and offset
C1_DueTodayIsUpcoming ==
    \A i \in Pending :
        feePayments[i].date = LocalToday
            => i \in Listed(upcomingPayments) /\ i \notin Listed(overduePayments)

\* C2: a Pending payment dated 30 days after today is in upcomingPayments, one
\* dated 31 days after today is in neither list, at every instant and offset
C2_ThirtyDayWindow ==
    \A i \in Pending :
        /\ feePayments[i].date = AddDays(LocalToday, 30)
               => i \in Listed(upcomingPayments)
        /\ feePayments[i].date = AddDays(LocalToday, 31)
               => i \notin Listed(upcomingPayments) /\ i \notin Listed(overduePayments)

\* C3: no payment is in both overduePayments and upcomingPayments, and both
\* lists hold Pending payments of the collection only
C3_DisjointPendingOnly ==
    /\ Listed(overduePayments) \cap Listed(upcomingPayments) = {}
    /\ Listed(overduePayments) \cup Listed(upcomingPayments) \subseteq Pending
    /\ Range(overduePayments) \cup Range(upcomingPayments) \subseteq Range(feePayments)

\* C3 witness: the user picked a period, one Pending payment is overdue and
\* another one upcoming
C3_Witness ==
    /\ startDate \in PickDates
    /\ Len(overduePayments) = 1
    /\ Len(upcomingPayments) = 1

\* C8: a change of the selected period at an unchanged current instant leaves
\* overduePayments and upcomingPayments as they were
C8_PeriodLeavesRiskLists ==
    [][(clock' = clock /\ <<startDate, endDate>>' # <<startDate, endDate>>)
           => /\ overduePayments' = overduePayments
              /\ upcomingPayments' = upcomingPayments]_vars

\* C8 witness: the user picked a period, and a Pending payment dated outside
\* that period is listed
C8_Witness ==
    /\ startDate \in PickDates
    /\ \E i \in Pending :
        /\ ~DayInPeriod(feePayments[i].date)
        /\ i \in Listed(overduePayments) \cup Listed(upcomingPayments)

(***************************************************************************)
(* Monthly series.                                                         *)
(***************************************************************************)
MonthOfDate(date) == date.year * 12 + date.month
MonthOfLabel(label) ==
    label.year * 12 + (CHOOSE i \in DOMAIN MonthShort : MonthShort[i] = label.mon)

\* C4: chartData holds exactly one bucket per distinct calendar month of the
\* paid payments and expenses of the period, in ascending chronological order
C4_ChronologicalBuckets ==
    LET months == {MonthOfDate(x.date) :
                     x \in Range(filteredData.paidPayments)
                           \cup Range(filteredData.allExpenses)}
    IN  /\ Len(chartData) = Cardinality(months)
        /\ {MonthOfLabel(chartData[i].name) : i \in DOMAIN chartData} = months
        /\ \A i, j \in DOMAIN chartData :
               i < j => MonthOfLabel(chartData[i].name) < MonthOfLabel(chartData[j].name)

(***************************************************************************)
(* Period metrics.                                                         *)
(***************************************************************************)
CountIn(s, field) == Cardinality({i \in DOMAIN s : DayInPeriod(s[i][field])})

\* C6: every entity type is counted by calendar day, startDate <= d <= endDate
\* with both boundary days included; with startDate after endDate nothing
\* matches, every count and sum is 0 and the series is empty
C6_InclusivePeriod ==
    /\ filteredData.newHiresCount = CountIn(staff, "joiningDate")
    /\ filteredData.newBatchesCount = CountIn(batches, "startDate")
    /\ filteredData.newLeadsCount = CountIn(leads, "enquiryDate")
    /\ Len(filteredData.allExpenses) = CountIn(expenses, "date")
    /\ Listed(filteredData.paidPayments) =
           {i \in DOMAIN feePayments :
               feePayments[i].status = "Paid" /\ DayInPeriod(feePayments[i].date)}
    /\ (\A i \in DOMAIN students : students[i].admissionDate # Absent)
           => filteredData.newAdmissionsCount = CountIn(students, "admissionDate")
    /\ ~DateLe(startDate, endDate)
           => /\ filteredData.newAdmissionsCount = 0
              /\ filteredData.newHiresCount = 0
              /\ filteredData.activeCoursesCount = 0
              /\ filteredData.newBatchesCount = 0
              /\ filteredData.newLeadsCount = 0
              /\ filteredData.revenue = 0
              /\ filteredData.expenses = 0
              /\ chartData = <<>>

\* C6 witness: the user picked both dates, a record dated on the first day and
\* one dated on the last day of the period are counted
C6_Witness ==
    /\ startDate \in PickDates /\ endDate \in PickDates
    /\ \E i \in DOMAIN students : students[i].admissionDate = startDate
    /\ \E i \in DOMAIN staff : staff[i].joiningDate = endDate
    /\ filteredData.newAdmissionsCount = 1
    /\ filteredData.newHiresCount = 1

\* C9: revenue is the sum of amount over the Paid payments dated in the
\* period, expenses the sum of amount over the expenses dated in the period
C9_RevenueAndExpenses ==
    /\ filteredData.revenue =
           TotalOf(feePayments,
                   {i \in DOMAIN feePayments :
                       feePayments[i].status = "Paid" /\ DayInPeriod(feePayments[i].date)})
    /\ filteredData.expenses =
           TotalOf(expenses, {i \in DOMAIN expenses : DayInPeriod(expenses[i].date)})

\* C9 witness: a Paid payment in the period is summed while a Pending payment
\* in the period and an expense outside it are left out
C9_Witness ==
    /\ filteredData.revenue > 0
    /\ filteredData.expenses = 0
    /\ \E i \in Pending : DayInPeriod(feePayments[i].date)
    /\ \E i \in DOMAIN expenses : ~DayInPeriod(expenses[i].date)

\* the students the claimed fallback counts: those admitted on a day of the
\* period, a student without admissionDate taken as admitted today (local date)
AdmittedInPeriod ==
    {i \in DOMAIN students :
        DayInPeriod(IF students[i].admissionDate = Absent
                    THEN LocalToday ELSE students[i].admissionDate)}

\* C11: a student without admissionDate is counted in newAdmissionsCount, and
\* its courses in the active course set, exactly when today's calendar date
\* lies in the period
C11_MissingDateIsToday ==
    /\ filteredData.newAdmissionsCount = Cardinality(AdmittedInPeriod)
    /\ filteredData.activeCoursesCount =
           Cardinality(UNION {students[i].courseIds : i \in AdmittedInPeriod})

(***************************************************************************)
(* Monthly series and scalar metrics.                                      *)
(***************************************************************************)
RECURSIVE TotalField(_, _)
TotalField(s, field) ==
    IF s = <<>> THEN 0 ELSE Head(s)[field] + TotalField(Tail(s), field)

\* the calendar months holding a Paid payment or an expense dated in the period
MonthsWithMoney ==
    {MonthOfDate(feePayments[i].date) :
        i \in {j \in DOMAIN feePayments :
                  feePayments[j].status = "Paid" /\ DayInPeriod(feePayments[j].date)}}
    \cup {MonthOfDate(expenses[i].date) :
            i \in {j \in DOMAIN expenses : DayInPeriod(expenses[j].date)}}

\* C12: the Revenue of all buckets of chartData sums to filteredData.revenue,
\* the Expenses to filteredData.expenses, and every bucket is of a month with
\* a Paid payment or an expense dated in the period
C12_SeriesMatchesMetrics ==
    /\ TotalField(chartData, "Revenue") = filteredData.revenue
    /\ TotalField(chartData, "Expenses") = filteredData.expenses
    /\ \A i \in DOMAIN chartData : MonthOfLabel(chartData[i].name) \in MonthsWithMoney

\* C12 witness: the user picked a period, two Paid payments of one month share
\* a bucket, and a bucket of another month holds an expense
C12_Witness ==
    /\ startDate \in PickDates
    /\ Len(filteredData.paidPayments) = 2
    /\ Len(filteredData.allExpenses) = 1
    /\ Len(chartData) = 2
    /\ \E i \in DOMAIN chartData : chartData[i].Revenue > 5000

(***************************************************************************)
(* Quick-select ranges.                                                    *)
(***************************************************************************)
FirstOfMonth(date) == ISO(date.year, date.month, 1)
FirstOfYear(date) == ISO(date.year, 1, 1)

\* C7: the initial period is 1 January of the current local year to today's
\* local date, and every quick-select sets the period from the local calendar
\* date alone: first of the month, 30 days back, 1 January; always up to today
C7_QuickSelectLocalDates ==
  /\ startDate = FirstOfYear(LocalToday) /\ endDate = LocalToday
  /\
    [][ /\ (\E now \in Later : handleThisMonth(now))
            => /\ startDate' = FirstOfMonth(LocalDate(clock', tz))
               /\ endDate' = LocalDate(clock', tz)
        /\ (\E now \in Later : handleLast30Days(now))
            => /\ startDate' = AddDays(LocalDate(clock', tz), -30)
               /\ endDate' = LocalDate(clock', tz)
        /\ (\E now \in Later : handleThisYear(now))
            => /\ startDate' = FirstOfYear(LocalDate(clock', tz))
               /\ endDate' = LocalDate(clock', tz) ]_vars

(***************************************************************************)
(* Table sort state.                                                       *)
(***************************************************************************)
\* a header the caller marked sortable
MarkedSortable(h) == "sortable" \in DOMAIN h /\ h.sortable = TRUE

\* the keys of the sortable columns the user activated, in order
Activations ==
    LET hit == SelectSeq(clicks, LAMBDA i : MarkedSortable(headers[i]))
    IN  [n \in DOMAIN hit |-> headers[hit[n]].key]

\* how many times in a row the last activated column was activated
RECURSIVE TrailingRun(_)
TrailingRun(a) ==
    IF Len(a) <= 1 THEN Len(a)
    ELSE IF a[Len(a) - 1] = a[Len(a)]
         THEN 1 + TrailingRun(SubSeq(a, 1, Len(a) - 1))
         ELSE 1

\* C5: unsorted before the first activation and never again; afterwards sorted
\* by the last activated column, ascending after 1, 3, ... activations in a
\* row of that column and descending after 2, 4, ...
C5_SortStateMachine ==
    IF Activations = <<>>
    THEN sortConfig = NoSort
    ELSE /\ sortConfig # NoSort
         /\ sortConfig.key = Activations[Len(Activations)]
         /\ sortConfig.direction =
                (IF TrailingRun(Activations) % 2 = 1 THEN "ascending" ELSE "descending")

\* C5 witness: one column activated three times in a row after another one
C5_Witness ==
    /\ Len(Activations) = 4
    /\ TrailingRun(Activations) = 3
    /\ sortConfig # NoSort
    /\ sortConfig.direction = "ascending"

\* C10: requestSort was called once per click on a header marked sortable,
\* with that header's key, and never for a click on any other header
C10_OnlySortableHeadersSort ==
    /\ requestSortCalls = Activations
    /\ (\A n \in DOMAIN clicks : ~MarkedSortable(headers[clicks[n]]))
           => sortConfig = NoSort

\* C10 witness: clicks on a header marked not sortable and on one without the
\* flag, around one click on a sortable header
C10_Witness ==
    /\ Len(clicks) = 3
    /\ Len(requestSortCalls) = 1
    /\ \E n \in DOMAIN clicks : "sortable" \notin DOMAIN headers[clicks[n]]
    /\ \E n \in DOMAIN clicks :
           "sortable" \in DOMAIN headers[clicks[n]] /\ ~headers[clicks[n]].sortable
====
